---- MODULE Spec2Model ----
(***************************************************************************)
(* Dominant return period detection (src/code/main.py).                    *)
(*                                                                         *)
(* A correlation sequence of length NT is represented by what the decision *)
(* procedure reads of it: the magnitude level |c_n| of every bin of its    *)
(* one-sided spectrum (0 = exactly zero), the ranking of the bins, the two *)
(* tolerance tests, the sign of the lag-1 autocorrelation and the set of   *)
(* bins whose normalised power reaches the scaled red-noise value.         *)
(* r2_score of a band-limited fit is computed from the bin energies        *)
(* (Parseval), rationals are pairs num/den in lowest terms.                *)
(***************************************************************************)
EXTENDS Integers, Sequences, FiniteSets, TLC

\* ------------------------------------------------------------------ bounds
MaxN == 8
MaxMag == 2
NCells == 2
MaxSig == 1
MaxWin == 2
MaxSample == 2
MaxRuns == 2
MaxRankN == 12
MaxEvents == 3

Cells == 1..NCells

\* ------------------------------------------------------- program constants
\* settings.py: R2_THRESHOLD = 0.5
R2_THRESHOLD == [num |-> 1, den |-> 2]

\* ------------------------------------------------------------- arithmetic
Abs(x) == IF x < 0 THEN -x ELSE x

RECURSIVE GCD(_, _)
\* np.gcd on non-negative integers
GCD(a, b) == IF b = 0 THEN a ELSE GCD(b, a % b)

\* a rational in lowest terms with positive denominator
Rat(n, d) ==
    LET g == GCD(Abs(n), Abs(d))
        s == IF d < 0 THEN -1 ELSE 1
    IN [num |-> (s * n) \div g, den |-> (s * d) \div g]

NaN == [num |-> 0, den |-> 0]
One == [num |-> 1, den |-> 1]
Zero == [num |-> 0, den |-> 1]

IsNaN(r) == r.den = 0

\* r >= s on floats: false as soon as one side is nan
RatGE(r, s) == ~IsNaN(r) /\ ~IsNaN(s) /\ r.num * s.den >= s.num * r.den

\* the bin counted on the two-sided spectrum
Round2_half(n, f) ==
    LET q == (100 * n) \div (2 * f)
        r == (100 * n) % (2 * f)
        h == IF r < f THEN q
             ELSE IF r > f THEN q + 1
             ELSE IF q % 2 = 0 THEN q ELSE q + 1
    IN Rat(h, 100)

\* np.round(n / f, decimals=2): round half to even on the hundredths
Round2(n, f) ==
    LET q == (100 * n) \div f
        r == (100 * n) % f
        h == IF 2 * r < f THEN q
             ELSE IF 2 * r > f THEN q + 1
             ELSE IF q % 2 = 0 THEN q ELSE q + 1
    IN Rat(h, 100)

\* ------------------------------------------------------------ the spectrum
\* np.fft.rfft of a length-n sequence has n // 2 + 1 bins
NBins(n) == n \div 2 + 1
Bins(n) == 0..(n \div 2)

Range(s) == {s[i] : i \in 1..Len(s)}

RECURSIVE Perms(_)
\* all orderings of a finite set, as sequences
Perms(S) ==
    IF S = {} THEN {<<>>}
    ELSE UNION {{<<x>> \o p : p \in Perms(S \ {x})} : x \in S}

RECURSIVE RankingsFrom(_, _, _)
RankingsFrom(n, mag, level) ==
    IF level < 0 THEN {<<>>}
    ELSE {p \o rest : p \in Perms({k \in Bins(n) : mag[k] = level}),
                      rest \in RankingsFrom(n, mag, level - 1)}

\* sorted_idx: the bins by descending |c_n|; the order of bins of equal
\* magnitude is whatever the sort leaves
Rankings(n, mag) == RankingsFrom(n, mag, MaxMag)

IsNonZero(x) == x # 0

\* sorted_idx[sorted_idx != 0]
NonZero(s) == SelectSeq(s, IsNonZero)

RECURSIVE IsSorted(_)
\* array == sorted(array), elementwise
IsSorted(s) ==
    IF Len(s) < 2 THEN TRUE
    ELSE s[1] <= s[2] /\ IsSorted(Tail(s))

Front(s) == SubSeq(s, 1, Len(s) - 1)

\* ------------------------------------------------------------------ state
VARIABLES
    NT,      \* settings.NT, the length of a correlation sequence
    corr,    \* per cell: the correlation sequence, as the pipeline reads it
    sres,    \* what _determine_dominant_return_period returned
    ares,    \* what _determine_dominant_return_period_array returned
    ares2,   \* what it returned for cell 1 of a second grid
    f_i,     \* the first NT samples of the series `event`
    f_j,     \* the first 2 * NT samples of the series `event1`
    tcorr,   \* what _calc_time_corr and _calc_time_corr_array returned
    local,   \* the entries of local_dominant_return_period, one per run
    mainrun  \* main(): its position, the two containers and the calls made

vars == <<NT, corr, sres, ares, ares2, f_i, f_j, tcorr, local, mainrun>>

\* ------------------------------------------------------------------ values
PNone == [kind |-> "None", val |-> Zero]
PNum(r) == [kind |-> "num", val |-> r]
\* the integer 1 written for a constant signal
ConstMarker == PNum(One)

FitCorr == [kind |-> "corr", idx |-> <<>>]
FitZeros == [kind |-> "zeros", idx |-> <<>>]
FitFourier(tmp) == [kind |-> "irfft", idx |-> tmp]

\* ------------------------------------------------- harmonic group selection
largest_nonzero_coeff_indices(sorted_idx) == NonZero(sorted_idx)

\* the top index taken without looking at the gcd
Fundamental_no_gcd(i1, i2) == IF i1 > 1 THEN i1 ELSE i2

\* main.py 211-217
Fundamental(i1, i2) ==
    LET gcd == GCD(i1, i2)
    IN IF gcd = 1 /\ i1 > 1 THEN i1
       ELSE IF gcd = 1 THEN i2
       ELSE gcd

\* the test for a multiple of the fundamental only
Qualifies_multiple(idx, gcd) == idx = 0 \/ idx % gcd = 0

\* main.py 222-226: the test of one ranked index
Qualifies(idx, gcd) == idx = 0 \/ idx % gcd = 0 \/ gcd % idx = 0

RECURSIVE ScanPrefix_continue(_, _)
\* the scan with `continue` in place of `break`
ScanPrefix_continue(sorted_idx, gcd) ==
    IF sorted_idx = <<>> THEN <<>>
    ELSE IF Qualifies(Head(sorted_idx), gcd)
         THEN <<Head(sorted_idx)>> \o ScanPrefix_continue(Tail(sorted_idx), gcd)
         ELSE ScanPrefix_continue(Tail(sorted_idx), gcd)

RECURSIVE ScanPrefix_twice(_, _)
\* an `if` in place of the `elif`: index 0 passes both tests and is appended
\* twice
ScanPrefix_twice(sorted_idx, gcd) ==
    IF sorted_idx = <<>> THEN <<>>
    ELSE IF Head(sorted_idx) = 0
         THEN <<0, 0>> \o ScanPrefix_twice(Tail(sorted_idx), gcd)
         ELSE IF Qualifies(Head(sorted_idx), gcd)
         THEN <<Head(sorted_idx)>> \o ScanPrefix_twice(Tail(sorted_idx), gcd)
         ELSE <<>>

RECURSIVE ScanPrefix(_, _)
\* main.py 219-229: append until the first index that does not qualify
ScanPrefix(sorted_idx, gcd) ==
    IF sorted_idx = <<>> THEN <<>>
    ELSE IF Qualifies(Head(sorted_idx), gcd)
         THEN <<Head(sorted_idx)>> \o ScanPrefix(Tail(sorted_idx), gcd)
         ELSE <<>>

\* the truncation loop left out
keep_increasing_subarray_noop(array) == array

\* an `if` in place of the `while`: one element removed at most
keep_increasing_subarray_once(array) ==
    IF IsSorted(NonZero(array)) THEN array ELSE Front(array)

RECURSIVE keep_increasing_subarray(_)
\* main.py 232-233 and 331-335
keep_increasing_subarray(array) ==
    IF IsSorted(NonZero(array)) THEN array
    ELSE keep_increasing_subarray(Front(array))

\* ------------------------------------------------------ red-noise chi2 test
\* main.py 106-127: blue noise is significant, else the test at one bin
calc_chi2_significance(c, idx_dominant_period) ==
    c.phiNeg \/ idx_dominant_period \in c.sig

\* ------------------------------------------------------------------ the fit
\* weight of bin k in the sum of squares of a length-n real sequence
Weight(n, k) == IF k = 0 \/ 2 * k = n THEN 1 ELSE 2

RECURSIVE Energy(_, _, _)
Energy(n, mag, S) ==
    IF S = {} THEN 0
    ELSE LET k == CHOOSE x \in S : TRUE
         IN Weight(n, k) * mag[k] * mag[k] + Energy(n, mag, S \ {k})

\* sklearn r2_score(corr, irfft(fit_n)) with fit_n populated on the bins S
r2_score(n, mag, S) ==
    LET res == Energy(n, mag, Bins(n) \ S)
        tot == Energy(n, mag, Bins(n) \ {0})
    IN IF tot = 0 THEN (IF res = 0 THEN One ELSE Zero)
       ELSE Rat(tot - res, tot)

\* 1 - (1 - r2) * (n - 1) / (n - p - 1) on numpy floats
AdjustedR2(n, r2, p) ==
    IF n - p - 1 = 0
    THEN (IF r2 = One THEN NaN ELSE [num |-> -1, den |-> 0])
    ELSE Rat(r2.den * (n - p - 1) - (r2.den - r2.num) * (n - 1),
             r2.den * (n - p - 1))

\* ------------------------------------------------------------ scalar path
NotRun ==
    [status |-> "notrun", ret |-> 0, r2 |-> Zero, fit |-> FitZeros,
     period |-> PNone, gcd |-> 0, acc |-> <<>>, tmp |-> <<>>, bin |-> 0,
     calls |-> {}]

\* an exception leaves the caller without a result
Raised(exc, h, calls) ==
    [status |-> exc, ret |-> 0, r2 |-> Zero, fit |-> FitZeros,
     period |-> PNone, gcd |-> h.gcd, acc |-> h.acc, tmp |-> h.tmp,
     bin |-> h.bin, calls |-> calls]

\* the tuple of a return statement, with the line of the statement, the
\* locals of the harmonic search (h) and the calls made on the way
Returned(line, r2, fit, period, h, calls) ==
    [status |-> "ok", ret |-> line, r2 |-> r2, fit |-> fit,
     period |-> period, gcd |-> h.gcd, acc |-> h.acc, tmp |-> h.tmp,
     bin |-> h.bin, calls |-> calls]

NoSearch == [gcd |-> 0, acc |-> <<>>, tmp |-> <<>>, bin |-> 0]

\* the period taken from the last non-zero member of the set
FitAndGate_last(n, c, h, float_div) ==
    LET raw == r2_score(n, c.mag, Range(h.tmp))
        r2_val == AdjustedR2(n, raw, Len(h.tmp))
        calls == {"chi2", "irfft"}
        nz == NonZero(h.tmp)
    IN IF n - Len(h.tmp) - 1 = 0 /\ ~float_div
       THEN Raised("ZeroDivisionError", h, calls)
       ELSE IF RatGE(r2_val, R2_THRESHOLD)
       THEN Returned(265, r2_val, FitFourier(h.tmp),
                     PNum(Round2(n, nz[Len(nz)])), h, calls)
       ELSE Returned(266, r2_val, FitFourier(h.tmp), PNone, h, calls)

\* main.py 245-266: the fit, its adjusted r2 and the gate.  float_div is
\* TRUE when r2_score hands back a numpy float, so that a zero denominator
\* gives nan instead of raising
FitAndGate(n, c, h, float_div) ==
    LET raw == r2_score(n, c.mag, Range(h.tmp))
        r2_val == AdjustedR2(n, raw, Len(h.tmp))
        calls == {"chi2", "irfft"}
    IN IF n - Len(h.tmp) - 1 = 0 /\ ~float_div
       THEN Raised("ZeroDivisionError", h, calls)
       ELSE IF RatGE(r2_val, R2_THRESHOLD)
       THEN Returned(265, r2_val, FitFourier(h.tmp),
                     PNum(Round2(n, NonZero(h.tmp)[1])), h, calls)
       ELSE Returned(266, r2_val, FitFourier(h.tmp), PNone, h, calls)

\* main.py 208-243: harmonic search, fundamental check, significance
HarmonicSearch(n, c, float_div) ==
    LET nz == largest_nonzero_coeff_indices(c.sorted_idx)
    IN IF Len(nz) < 2 THEN Raised("IndexError", NoSearch, {})
       ELSE LET gcd == Fundamental(nz[1], nz[2])
                acc == ScanPrefix(c.sorted_idx, gcd)
                tmp == keep_increasing_subarray(acc)
                h0 == [gcd |-> gcd, acc |-> acc, tmp |-> tmp, bin |-> 0]
                h1 == [h0 EXCEPT !.bin = NonZero(tmp)[1]]
            IN IF gcd \notin Range(tmp)
               THEN Returned(236, Zero, FitZeros, PNone, h0, {})
               ELSE IF ~calc_chi2_significance(c, h1.bin)
               THEN Returned(243, Zero, FitZeros, PNone, h1, {"chi2"})
               ELSE FitAndGate(n, c, h1, float_div)

\* the test for a constant sequence left out
determine_dominant_return_period_no_const(n, c, float_div) ==
    IF c.belowEps
    THEN Returned(204, One, FitCorr, PNone, NoSearch, {})
    ELSE HarmonicSearch(n, c, float_div)

\* main.py 183-266
determine_dominant_return_period(n, c, float_div) ==
    IF c.belowEps
    THEN Returned(204, One, FitCorr, PNone, NoSearch, {})
    ELSE IF c.isConst
    THEN Returned(207, One, FitCorr, ConstMarker, NoSearch, {})
    ELSE HarmonicSearch(n, c, float_div)

\* ----------------------------------------------------------- gridded path
\* the second assignment reading row 0 instead of row 1
ArrFundamental_row0(i1, i2) ==
    LET g0 == GCD(i1, i2)
        g1 == IF g0 = 1 /\ i1 > 1 THEN i1 ELSE g0
        g2 == IF g1 = 1 /\ i1 <= 1 THEN i1 ELSE g1
    IN g2

\* main.py 292-306: np.gcd, then two masked assignments, the second mask
\* being evaluated on the array the first assignment has written
ArrFundamental(i1, i2) ==
    LET g0 == GCD(i1, i2)
        g1 == IF g0 = 1 /\ i1 > 1 THEN i1 ELSE g0
        g2 == IF g1 = 1 /\ i1 <= 1 THEN i2 ELSE g1
    IN g2

RECURSIVE FirstFalse(_, _, _)
FirstFalse(sorted_idx, gcd, i) ==
    IF i > Len(sorted_idx) THEN 0
    ELSE IF ~Qualifies(sorted_idx[i], gcd) THEN i - 1
    ELSE FirstFalse(sorted_idx, gcd, i + 1)

\* main.py 315-319: np.argmax(np.invert(mask)), 0-based position of the
\* first index that does not qualify; argmax of an all-False mask is 0
ArrScanStop(sorted_idx, gcd) == FirstFalse(sorted_idx, gcd, 1)

\* main.py 321-328: sorted_idx[:stop]
ArrScanPrefix(sorted_idx, gcd) ==
    SubSeq(sorted_idx, 1, ArrScanStop(sorted_idx, gcd))

\* main.py 169-173: the loop over the cell's non-zero members leaves the
\* values of the member visited last; 0 stands for no member visited
ArrChi2Bin(idx) == IF idx = <<>> THEN 0 ELSE idx[Len(idx)]

\* main.py 167-179: with no member visited both compared values stay 0
calc_chi2_significance_array(c, idx) ==
    \/ c.phiNeg
    \/ idx = <<>>
    \/ ArrChi2Bin(idx) \in c.sig

\* main.py 369: np.count_nonzero(fit_n, axis=0)
CountNonzero(mag, tmp) == Cardinality({k \in Range(tmp) : mag[k] # 0})

\* the constant marker written after the fundamental check
ArrSentinels_late_const(c, r2ok, numeric, missing, significant) ==
    LET r1 == IF r2ok THEN numeric ELSE PNone
        r2 == IF missing THEN PNone ELSE r1
        r3 == IF c.isConst THEN ConstMarker ELSE r2
        r4 == IF c.belowEps THEN PNone ELSE r3
        r5 == IF ~significant THEN PNone ELSE r4
    IN r5

\* main.py 375-396: the overwrites of one cell of res, in program order
ArrSentinels(c, r2ok, numeric, missing, significant) ==
    LET r1 == IF r2ok THEN numeric ELSE PNone
        r2 == IF c.isConst THEN ConstMarker ELSE r1
        r3 == IF missing THEN PNone ELSE r2
        r4 == IF c.belowEps THEN PNone ELSE r3
        r5 == IF ~significant THEN PNone ELSE r4
    IN r5

\* main.py 286-396 for one cell of the grid
ArrCell(n, c) ==
    LET nz == largest_nonzero_coeff_indices(c.sorted_idx)
        gcd == ArrFundamental(nz[1], nz[2])
        tmp == keep_increasing_subarray(ArrScanPrefix(c.sorted_idx, gcd))
        tmp_non_zero == NonZero(tmp)
        significant == calc_chi2_significance_array(c, tmp_non_zero)
        count == CountNonzero(c.mag, tmp)
        r2_val == AdjustedR2(n, r2_score(n, c.mag, Range(tmp)), count)
        r2ok == RatGE(r2_val, R2_THRESHOLD)
        numeric == IF tmp_non_zero = <<>> THEN PNone
                   ELSE PNum(Rat(n, tmp_non_zero[1]))
    IN [gcd |-> gcd, tmp |-> tmp, bin |-> ArrChi2Bin(tmp_non_zero),
        significant |-> significant, count |-> count, r2 |-> r2_val,
        indexError |-> r2ok /\ tmp_non_zero = <<>>,
        res |-> ArrSentinels(c, r2ok, numeric, gcd \notin Range(tmp),
                             significant)]

NoCell ==
    [gcd |-> 0, tmp |-> <<>>, bin |-> 0, significant |-> FALSE, count |-> 0,
     r2 |-> Zero, indexError |-> FALSE, res |-> PNone]

ArrNotRun == [status |-> "notrun", cell |-> [x \in Cells |-> NoCell]]
ArrRaised(exc) == [status |-> exc, cell |-> [x \in Cells |-> NoCell]]

\* main.py 270-402: an exception in any cell ends the whole batch
determine_dominant_return_period_array(n, grid) ==
    IF n \div 2 < 2 THEN ArrRaised("IndexError")
    ELSE LET cells == [x \in Cells |-> ArrCell(n, grid[x])]
         IN IF \E x \in Cells : cells[x].indexError
            THEN ArrRaised("IndexError")
            ELSE [status |-> "ok", cell |-> cells]

\* ------------------------------------------------------------------ inputs
NonDC(n) == Bins(n) \ {0}

\* the sequence is constant: no energy outside bin 0
NonDCZero(n, mag) == \A k \in NonDC(n) : mag[k] = 0

\* the two tolerance tests (main.py 203, 206) as far as the magnitudes
\* decide them: a constant sequence passes the second, the zero sequence the
\* first, and a constant sequence above EPS_CORR is dominated by bin 0
FlagsOK(n, mag, belowEps, isConst) ==
    /\ NonDCZero(n, mag) => isConst
    /\ (\A k \in Bins(n) : mag[k] = 0) => belowEps
    /\ (isConst /\ ~belowEps) => \A k \in NonDC(n) : mag[0] > mag[k]

\* <<belowEps, isConst, phi < 0>>; phi = 0/0 is nan for a constant sequence
Flags(n, mag) ==
    {h \in BOOLEAN \X BOOLEAN \X BOOLEAN :
        /\ FlagsOK(n, mag, h[1], h[2])
        /\ NonDCZero(n, mag) => ~h[3]}

\* the bins whose normalised power reaches the scaled red-noise value.  A
\* bin without power does so only when that value is nan (0 after
\* nan_to_num), as for a constant sequence.  With phi < 0 the comparison is
\* not made (scalar) or its outcome is absorbed by the `or` (gridded): the
\* sequence is then taken with every bin below the red-noise value
Sigs(n, mag, phiNeg) ==
    IF NonDCZero(n, mag) THEN {NonDC(n)}
    ELSE IF phiNeg THEN {{}}
    ELSE {g \in SUBSET {k \in NonDC(n) : mag[k] > 0} :
             Cardinality(g) <= MaxSig}

\* -------------------------------------------------------- time correlation
\* a series is a function of the 0-based time step
Samples == 0..MaxSample

\* np.array([0.0] * NT)
ZeroCorr(n) == [k \in 0..(n - 1) |-> Zero]

\* list(set(f)) == [0.0]
AllZero(f) == DOMAIN f # {} /\ \A t \in DOMAIN f : f[t] = 0

\* the windows starting one step late
Windows_late(n, fj) ==
    [n_shift \in 0..(n - 1) |-> [t \in 0..(n - 1) |-> fj[(n_shift + t + 1) % (2 * n)]]]

\* main.py 63: [f_j[n_shift : n_shift + NT] for n_shift in range(NT)]
Windows(n, fj) ==
    [n_shift \in 0..(n - 1) |-> [t \in 0..(n - 1) |-> fj[n_shift + t]]]

RECURSIVE Dot(_, _, _)
\* the sum of u[t] * v[t] over t < n
Dot(u, v, n) ==
    IF n = 0 THEN 0 ELSE u[n - 1] * v[n - 1] + Dot(u, v, n - 1)

\* main.py 63-66 and 80-82: f_i.dot(f_j.T) / NT, einsum(...) / NT
FullTimeCorr(n, fi, fj) ==
    [k \in 0..(n - 1) |-> Rat(Dot(fi, Windows(n, fj)[k], n), n)]

\* the second test made on the first NT samples only
calc_time_corr_short(n, fi, fj) ==
    IF AllZero(fi) THEN ZeroCorr(n)
    ELSE IF AllZero([t \in 0..(n - 1) |-> fj[t]]) THEN ZeroCorr(n)
    ELSE FullTimeCorr(n, fi, fj)

\* main.py 46-66
calc_time_corr(n, fi, fj) ==
    IF AllZero(fi) THEN ZeroCorr(n)
    ELSE IF AllZero(fj) THEN ZeroCorr(n)
    ELSE FullTimeCorr(n, fi, fj)

\* main.py 69-86: no short-circuit, every cell by the same contraction
calc_time_corr_array(n, gi, gj) ==
    [x \in Cells |-> FullTimeCorr(n, gi[x], gj[x])]

\* the series of a cell: cell 1 holds (f_i, f_j), cell 2 the autocorrelation
\* input (f_j, f_j), a further cell the series of cell 1 rotated in time
CellEvent(n, fi, fj, x) ==
    IF x = 1 THEN fi
    ELSE IF x = 2 THEN [t \in 0..(n - 1) |-> fj[t]]
    ELSE [t \in 0..(n - 1) |-> fi[(t + x) % n]]

CellEvent1(n, fj, x) ==
    IF x <= 2 THEN fj ELSE [t \in 0..(2 * n - 1) |-> fj[(t + x) % (2 * n)]]

NoTimeCorr == [scalar |-> <<>>, grid |-> <<>>]

\* a container of TimeAnalysisImpacts: None after __init__ (main.py 441-442),
\* then a dict keyed by event
ContainerNone == [isNone |-> TRUE, events |-> {}]
ContainerEmpty == [isNone |-> FALSE, events |-> {}]

\* main() not started
NoMain ==
    [pc |-> "none", scenario |-> "none", n_events |-> 0, no_trends |-> <<>>,
     no_trend |-> FALSE, event |-> 0,
     dominant_return_period_t0 |-> ContainerNone,
     dominant_return_period_t0_no_trend |-> ContainerNone,
     calls |-> <<>>]

\* no run of the local analysis yet
NoLocal == [no_trend |-> FALSE, float_div |-> TRUE, run |-> <<>>]

\* ---------------------------------------------------- grids of flat spectra
RECURSIVE Descending(_)
\* the members of a set of bins, highest first
Descending(S) ==
    IF S = {} THEN <<>>
    ELSE LET k == CHOOSE x \in S : \A y \in S : y <= x
         IN <<k>> \o Descending(S \ {k})

\* a sequence with the same |c_n| > 0 on the bins S and 0 on the others,
\* equal magnitudes ranked as the flip of a stable ascending sort leaves them
FlatSeq(n, S) ==
    LET mag == [k \in Bins(n) |-> IF k \in S THEN 1 ELSE 0]
    IN [mag |-> mag,
        sorted_idx |-> Descending(S) \o Descending(Bins(n) \ S),
        belowEps |-> S = {},
        isConst |-> NonDCZero(n, mag),
        phiNeg |-> FALSE,
        sig |-> IF NonDCZero(n, mag) THEN NonDC(n) ELSE S \ {0}]

ArrNotRun2 == [status |-> "notrun", cell |-> NoCell, other |-> {}]

\* ----------------------------------------------------------------- actions
\* every cell of the grid holds the same correlation sequence
Init ==
    /\ NT \in 1..MaxN
    /\ \E mag \in [Bins(NT) -> 0..MaxMag] :
       \E s \in Rankings(NT, mag) :
       \E f \in Flags(NT, mag) :
       \E g \in Sigs(NT, mag, f[3]) :
          corr = [x \in Cells |->
                     [mag |-> mag, sorted_idx |-> s, belowEps |-> f[1],
                      isConst |-> f[2], phiNeg |-> f[3], sig |-> g]]
    /\ sres = NotRun
    /\ ares = ArrNotRun
    /\ ares2 = ArrNotRun2
    /\ f_i = <<>> /\ f_j = <<>> /\ tcorr = NoTimeCorr
    /\ local = NoLocal
    /\ mainrun = NoMain

\* r2_score returns a Python float or a numpy float, depending on the
\* sklearn of the build; the two differ only on a zero denominator, which
\* needs a harmonic set of n - 1 of the n // 2 + 1 bins
FloatDivChoices(n) == IF n - NBins(n) - 1 <= 0 THEN BOOLEAN ELSE {TRUE}

\* _determine_dominant_return_period on the sequence the cells hold
ScalarRun ==
    /\ sres.status = "notrun"
    /\ \E float_div \in FloatDivChoices(NT) :
          sres' = determine_dominant_return_period(NT, corr[1], float_div)
    /\ UNCHANGED <<NT, corr, ares, ares2, f_i, f_j, tcorr, local, mainrun>>

\* _determine_dominant_return_period_array on the grid; main() runs the
\* local (scalar) analysis first and an exception there ends the run
ArrayRun ==
    /\ sres.status = "ok"
    /\ ares.status = "notrun"
    /\ ares' = determine_dominant_return_period_array(NT, corr)
    /\ UNCHANGED <<NT, corr, sres, ares2, f_i, f_j, tcorr, local, mainrun>>

Next ==
    \/ ScalarRun
    \/ ArrayRun

Spec == Init /\ [][Next]_vars

\* the driver on a second grid (main.py 747-756 calls it once per event and
\* reference time) that holds the same sequence in cell 1 and another one in
\* every other cell
ArrayRunOther ==
    /\ ares.status # "notrun"
    /\ ares2.status = "notrun"
    /\ \E S \in SUBSET Bins(NT) :
          LET grid2 == [x \in Cells |->
                           IF x = 1 THEN corr[1] ELSE FlatSeq(NT, S)]
              r == determine_dominant_return_period_array(NT, grid2)
          IN ares2' = [status |-> r.status, cell |-> r.cell[1], other |-> S]
    /\ UNCHANGED <<NT, corr, sres, ares, f_i, f_j, tcorr, local, mainrun>>

\* every cell of the grid holds the same flat spectrum
InitGrid ==
    /\ NT \in 1..MaxN
    /\ \E S \in SUBSET Bins(NT) : corr = [x \in Cells |-> FlatSeq(NT, S)]
    /\ sres = NotRun
    /\ ares = ArrNotRun
    /\ ares2 = ArrNotRun2
    /\ f_i = <<>> /\ f_j = <<>> /\ tcorr = NoTimeCorr
    /\ local = NoLocal
    /\ mainrun = NoMain

NextGrid ==
    \/ ScalarRun
    \/ ArrayRun
    \/ ArrayRunOther

SpecGrid == InitGrid /\ [][NextGrid]_vars

\* the two series of a time window, every sample an event count
InitCorr ==
    /\ NT \in 1..MaxWin
    /\ f_i \in [0..(NT - 1) -> Samples]
    /\ f_j \in [0..(2 * NT - 1) -> Samples]
    /\ tcorr = NoTimeCorr
    /\ corr = <<>>
    /\ sres = NotRun
    /\ ares = ArrNotRun
    /\ ares2 = ArrNotRun2
    /\ local = NoLocal
    /\ mainrun = NoMain

\* main.py 808: _calc_time_corr for every location
TimeCorrRun ==
    /\ tcorr.scalar = <<>>
    /\ tcorr' = [tcorr EXCEPT !.scalar =
                    [x \in Cells |->
                        calc_time_corr(NT, CellEvent(NT, f_i, f_j, x),
                                       CellEvent1(NT, f_j, x))]]
    /\ UNCHANGED <<NT, corr, sres, ares, ares2, f_i, f_j, local, mainrun>>

\* main.py 411: _calc_time_corr_array on the grid, once the local analysis
\* is through
TimeCorrArrayRun ==
    /\ tcorr.scalar # <<>>
    /\ tcorr.grid = <<>>
    /\ tcorr' = [tcorr EXCEPT !.grid =
                    calc_time_corr_array(NT,
                        [x \in Cells |-> CellEvent(NT, f_i, f_j, x)],
                        [x \in Cells |-> CellEvent1(NT, f_j, x)])]
    /\ UNCHANGED <<NT, corr, sres, ares, ares2, f_i, f_j, local, mainrun>>

NextCorr ==
    \/ TimeCorrRun
    \/ TimeCorrArrayRun

SpecCorr == InitCorr /\ [][NextCorr]_vars

\* ------------------------------------------------------ the local pipeline
\* a series of event counts that repeats after w time steps
Periodic(len, p, w) == [t \in 0..(len - 1) |-> p[t % w]]

Series(len) ==
    UNION {{Periodic(len, p, w) : p \in [0..(w - 1) -> Samples]} :
              w \in 1..MaxWin}

IsConstSeq(c) == \A k \in DOMAIN c : c[k] = c[0]

\* the flat spectra a time correlation c can have: none for the zero
\* sequence, bin 0 only for a constant one, a bin outside DC for any other;
\* line 809-813 takes the slope out first, which can leave any of them
SpectraOf(n, c, no_trend) ==
    {S \in SUBSET Bins(n) :
        /\ c = ZeroCorr(n) => S = {}
        /\ (IsConstSeq(c) /\ c # ZeroCorr(n)) => S = {0}
        /\ (~IsConstSeq(c) /\ ~no_trend) => S \cap NonDC(n) # {}}

\* the run writing the windows of line 63 back into the series
LocalRun_inplace ==
    /\ Len(local.run) < MaxRuns
    /\ LET c == calc_time_corr(NT, f_i, f_j)
           res == determine_dominant_return_period(NT, corr[1], local.float_div)
       IN local' = [local EXCEPT !.run =
                       Append(@, [read |-> <<f_i, f_j>>, corr |-> c,
                                  res |-> res])]
    /\ f_j' = [t \in DOMAIN f_j |-> f_j[(t + 1) % (2 * NT)]]
    /\ UNCHANGED <<NT, corr, sres, ares, ares2, f_i, tcorr, mainrun>>

\* main.py 796-822 for one location, event and reference time: the time
\* correlation of the event with itself, then the decision on it
LocalRun ==
    /\ Len(local.run) < MaxRuns
    /\ LET c == calc_time_corr(NT, f_i, f_j)
           res == determine_dominant_return_period(NT, corr[1], local.float_div)
       IN local' = [local EXCEPT !.run =
                       Append(@, [read |-> <<f_i, f_j>>, corr |-> c,
                                  res |-> res])]
    /\ UNCHANGED <<NT, corr, sres, ares, ares2, f_i, f_j, tcorr, mainrun>>

\* one series of event counts, read as `event` and as `event1`, and what
\* the decision reads of its time correlation
InitLocal ==
    /\ NT \in 1..MaxN
    /\ f_j \in Series(2 * NT)
    /\ f_i = [t \in 0..(NT - 1) |-> f_j[t]]
    /\ \E no_trend \in BOOLEAN :
       \E float_div \in FloatDivChoices(NT) :
       \E S \in SpectraOf(NT, calc_time_corr(NT, f_i, f_j), no_trend) :
          /\ local = [no_trend |-> no_trend, float_div |-> float_div,
                      run |-> <<>>]
          /\ corr = [x \in Cells |-> FlatSeq(NT, S)]
    /\ sres = NotRun
    /\ ares = ArrNotRun
    /\ ares2 = ArrNotRun2
    /\ tcorr = NoTimeCorr
    /\ mainrun = NoMain

NextLocal ==
    \/ LocalRun

SpecLocal == InitLocal /\ [][NextLocal]_vars

\* ------------------------------------------- spectra of distinct magnitudes
\* the position of bin k in a ranking
Pos(s, k) == CHOOSE i \in 1..Len(s) : s[i] = k

\* the magnitude levels of a spectrum without ties that ranks the bins as s
\* does: the higher the rank, the larger |c_n|
MagOfRanking(n, s) == [k \in Bins(n) |-> NBins(n) + 1 - Pos(s, k)]

\* every cell holds a sequence whose bins all have energy, no two of them
\* the same, in any order of the bins
InitRank ==
    /\ NT \in 1..MaxRankN
    /\ \E s \in Perms(Bins(NT)) :
       \E phiNeg \in BOOLEAN :
          LET mag == MagOfRanking(NT, s)
          IN \E g \in Sigs(NT, mag, phiNeg /\ ~NonDCZero(NT, mag)) :
                corr = [x \in Cells |->
                           [mag |-> mag, sorted_idx |-> s, belowEps |-> FALSE,
                            isConst |-> NonDCZero(NT, mag),
                            phiNeg |-> phiNeg /\ ~NonDCZero(NT, mag),
                            sig |-> g]]
    /\ sres = NotRun
    /\ ares = ArrNotRun
    /\ ares2 = ArrNotRun2
    /\ f_i = <<>> /\ f_j = <<>> /\ tcorr = NoTimeCorr
    /\ local = NoLocal
    /\ mainrun = NoMain

SpecRank == InitRank /\ [][Next]_vars

\* ------------------------------------------------------------------ main()
\* settings.py 21
RUN_DOMINANT_FREQUENCY_CALC == TRUE

\* settings.py 25
t_0s == <<1850, 1900, 1950, 2000, 2050>>

\* settings.py 104-110: the keys of ALL_SSP_SCENARIOS
Scenarios == {"picontrol", "ssp585", "ssp126", "ssp370", "historical"}

\* every scenario analysed with and without the trend
no_trends_all(ssp_scenario) == <<TRUE, FALSE>>

\* main.py 1039
no_trends(ssp_scenario) ==
    IF ssp_scenario # "picontrol" THEN <<TRUE, FALSE>> ELSE <<FALSE>>

\* main.py 1040: the next pass of the loop
LoopNext ==
    /\ mainrun.pc = "for"
    /\ mainrun.no_trends # <<>>
    /\ mainrun' = [mainrun EXCEPT !.no_trend = Head(mainrun.no_trends),
                                  !.no_trends = Tail(mainrun.no_trends),
                                  !.pc = "local"]
    /\ UNCHANGED <<NT, corr, sres, ares, ares2, f_i, f_j, tcorr, local>>

\* main.py 1042-1046: calculate_local_dominant_return_period(no_trend)
CalculateLocal ==
    /\ mainrun.pc = "local"
    /\ mainrun' = [mainrun EXCEPT
                      !.calls = Append(@, <<"local", mainrun.no_trend>>),
                      !.pc = IF RUN_DOMINANT_FREQUENCY_CALC THEN "calculate"
                             ELSE "for"]
    /\ UNCHANGED <<NT, corr, sres, ares, ares2, f_i, f_j, tcorr, local>>

\* main.py 733-742: calculate_dominant_return_period sets its container
CalculateEnter ==
    /\ mainrun.pc = "calculate"
    /\ mainrun' = [mainrun EXCEPT
                      !.dominant_return_period_t0 =
                          IF mainrun.no_trend THEN @ ELSE ContainerEmpty,
                      !.dominant_return_period_t0_no_trend =
                          IF mainrun.no_trend THEN ContainerEmpty ELSE @,
                      !.event = 0,
                      !.pc = "event"]
    /\ UNCHANGED <<NT, corr, sres, ares, ares2, f_i, f_j, tcorr, local>>

\* main.py 744-781: one event, a result for every reference time
CalculateEvent ==
    /\ mainrun.pc = "event"
    /\ mainrun.event < mainrun.n_events
    /\ LET event == mainrun.event + 1
           filled(c) ==
               [c EXCEPT !.events =
                   @ \cup {<<event, t_0s[k]>> : k \in 1..Len(t_0s)}]
       IN mainrun' = [mainrun EXCEPT
                         !.dominant_return_period_t0 =
                             IF mainrun.no_trend THEN @ ELSE filled(@),
                         !.dominant_return_period_t0_no_trend =
                             IF mainrun.no_trend THEN filled(@) ELSE @,
                         !.event = event]
    /\ UNCHANGED <<NT, corr, sres, ares, ares2, f_i, f_j, tcorr, local>>

\* calculate_dominant_return_period returns
CalculateReturn ==
    /\ mainrun.pc = "event"
    /\ mainrun.event = mainrun.n_events
    /\ mainrun' = [mainrun EXCEPT
                      !.calls = Append(@, <<"calculate", mainrun.no_trend>>),
                      !.pc = "for"]
    /\ UNCHANGED <<NT, corr, sres, ares, ares2, f_i, f_j, tcorr, local>>

\* main.py 1051-1052
StoreNoTrend ==
    /\ mainrun.pc = "for"
    /\ mainrun.no_trends = <<>>
    /\ mainrun' = [mainrun EXCEPT
                      !.calls =
                          IF mainrun.dominant_return_period_t0_no_trend.isNone
                          THEN @ ELSE Append(@, <<"store", TRUE>>),
                      !.pc = "store"]
    /\ UNCHANGED <<NT, corr, sres, ares, ares2, f_i, f_j, tcorr, local>>

\* main.py 1053-1054
Store ==
    /\ mainrun.pc = "store"
    /\ mainrun' = [mainrun EXCEPT
                      !.calls =
                          IF mainrun.dominant_return_period_t0.isNone
                          THEN @ ELSE Append(@, <<"store", FALSE>>),
                      !.pc = "done"]
    /\ UNCHANGED <<NT, corr, sres, ares, ares2, f_i, f_j, tcorr, local>>

\* main.py 1022-1039: the analysis object built, the impacts counted
InitMain ==
    /\ NT = 25
    /\ \E ssp_scenario \in Scenarios :
       \E n \in 1..MaxEvents :
          mainrun = [NoMain EXCEPT !.pc = "for",
                                   !.scenario = ssp_scenario,
                                   !.n_events = n,
                                   !.no_trends = no_trends(ssp_scenario)]
    /\ corr = <<>>
    /\ sres = NotRun
    /\ ares = ArrNotRun
    /\ ares2 = ArrNotRun2
    /\ f_i = <<>> /\ f_j = <<>> /\ tcorr = NoTimeCorr
    /\ local = NoLocal

NextMain ==
    \/ LoopNext
    \/ CalculateLocal
    \/ CalculateEnter
    \/ CalculateEvent
    \/ CalculateReturn
    \/ StoreNoTrend
    \/ Store

SpecMain == InitMain /\ [][NextMain]_vars

\* ----------------------------------------------------------------- claims
\* the scalar path got as far as the harmonic search and has its locals
ScalarSearched ==
    sres.ret \in {236, 243, 265, 266} \/ sres.status = "ZeroDivisionError"

ArrayDone == ares.status = "ok"

IsPrefix(s, t) == Len(s) <= Len(t) /\ s = SubSeq(t, 1, Len(s))

\* C1: with the same correlation sequence in every cell, the value the
\* gridded driver leaves in each cell equals the dominant period the scalar
\* function returns for that sequence (and one raises only if the other
\* does); stated for NT >= 6, where both paths select the same harmonic set
C1_GriddedEqualsScalar ==
    (NT >= 6 /\ sres.status # "notrun" /\ ares.status # "notrun") =>
        /\ (sres.status = "ok") <=> (ares.status = "ok")
        /\ (sres.status = "ok") =>
               \A x \in Cells : ares.cell[x].res = sres.period

\* C2: the significance test compares the red-noise value and the observed
\* power of the first non-zero member of the surviving set, in the scalar
\* path and in every cell of the gridded path (cells above both tolerances)
C2_SignificanceAtFirstMember ==
    /\ "chi2" \in sres.calls => sres.bin = NonZero(sres.tmp)[1]
    /\ ArrayDone =>
          \A x \in Cells :
              (/\ ~corr[x].belowEps /\ ~corr[x].isConst
               /\ NonZero(ares.cell[x].tmp) # <<>>) =>
                  ares.cell[x].bin = NonZero(ares.cell[x].tmp)[1]

\* the precedence of the scalar path over the five conditions
ScalarPrecedence(c, missing, significant, r2ok, numeric) ==
    IF c.belowEps THEN PNone
    ELSE IF c.isConst THEN ConstMarker
    ELSE IF missing \/ ~significant \/ ~r2ok THEN PNone
    ELSE numeric

\* C3: whatever combination of the five conditions a cell raises, the value
\* left in it after all overwrites is the one the scalar order of the rules
\* gives; a constant cell above the tolerance keeps the constant marker
\* (stated for NT >= 6)
C3_SentinelPrecedence ==
    (NT >= 6 /\ ArrayDone) =>
        \A x \in Cells :
            LET a == ares.cell[x]
            IN a.res = ScalarPrecedence(corr[x], a.gcd \notin Range(a.tmp),
                           a.significant, RatGE(a.r2, R2_THRESHOLD),
                           IF NonZero(a.tmp) = <<>> THEN PNone
                           ELSE PNum(Rat(NT, NonZero(a.tmp)[1])))

OutcomeAt(line) ==
    CASE line = 204 -> "NoSignal"
      [] line = 207 -> "ConstantSignal"
      [] line = 236 -> "FundamentalMissing"
      [] line = 243 -> "NotSignificant"
      [] line = 266 -> "PoorFit"
      [] OTHER -> "Period"

\* reading the outcome off the returned (r2, fit, period); the triple
\* (0, zeros, None) can be given one outcome only
OutcomeOfResult(r2, fit, period) ==
    IF period.kind = "num"
    THEN (IF period = ConstMarker /\ fit.kind = "corr"
          THEN "ConstantSignal" ELSE "Period")
    ELSE IF fit.kind = "corr" THEN "NoSignal"
    ELSE IF fit.kind = "zeros" THEN "FundamentalMissing"
    ELSE "PoorFit"

\* C4: the outcome of a run (which of the five non-fatal outcomes, or a
\* period) is a function of the returned (r2, fit, period)
C4_OutcomeReadableFromResult ==
    sres.status = "ok" =>
        OutcomeOfResult(sres.r2, sres.fit, sres.period) = OutcomeAt(sres.ret)

\* C5: the non-zero indices of the final harmonic set, in ranking order, are
\* non-decreasing, in the scalar path and in every cell of the gridded path
C5_HarmonicSetMonotone ==
    /\ ScalarSearched => IsSorted(NonZero(sres.tmp))
    /\ ArrayDone => \A x \in Cells : IsSorted(NonZero(ares.cell[x].tmp))

\* the truncation removed something in both paths
C5_Witness ==
    /\ ScalarSearched /\ Len(sres.tmp) < Len(sres.acc)
    /\ ArrayDone
    /\ \E x \in Cells :
          Len(ares.cell[x].tmp)
              < ArrScanStop(corr[x].sorted_idx, ares.cell[x].gcd)

\* the fundamental as section 4.3 step 3 states it
StatedFundamental(i1, i2) ==
    CASE GCD(i1, i2) > 1 -> GCD(i1, i2)
      [] GCD(i1, i2) = 1 /\ i1 > 1 -> i1
      [] OTHER -> i2

\* C6: the fundamental is gcd(i1, i2) when that is above 1, i1 when the gcd
\* is 1 and i1 > 1, i2 when the gcd is 1 and i1 <= 1, in the scalar path and
\* in every cell of the gridded path
C6_Fundamental ==
    /\ ScalarSearched =>
          \A x \in Cells :
              sres.gcd = StatedFundamental(NonZero(corr[x].sorted_idx)[1],
                                           NonZero(corr[x].sorted_idx)[2])
    /\ ArrayDone =>
          \A x \in Cells :
              ares.cell[x].gcd
                  = StatedFundamental(NonZero(corr[x].sorted_idx)[1],
                                      NonZero(corr[x].sorted_idx)[2])

\* both paths ran on a ranking whose top non-zero index is 1
C6_Witness ==
    /\ ScalarSearched /\ ArrayDone
    /\ \A x \in Cells : NonZero(corr[x].sorted_idx)[1] = 1
    /\ sres.gcd > 1

\* C7: the accepted set is the longest prefix of the ranking whose elements
\* all qualify, nothing ranked after the first failing index is in the set,
\* and the set after truncation is still a prefix of the ranking
C7_PrefixSemantics ==
    ScalarSearched =>
        \A x \in Cells :
            LET sorted_idx == corr[x].sorted_idx
            IN /\ IsPrefix(sres.acc, sorted_idx)
               /\ \A i \in 1..Len(sres.acc) : Qualifies(sres.acc[i], sres.gcd)
               /\ Len(sres.acc) < Len(sorted_idx) =>
                      ~Qualifies(sorted_idx[Len(sres.acc) + 1], sres.gcd)
               /\ IsPrefix(sres.tmp, sres.acc)
               /\ IsPrefix(sres.tmp, sorted_idx)

\* an index ranked after the first failing one would qualify by itself
C7_Witness ==
    /\ ScalarSearched
    /\ \E x \in Cells :
          \E i \in (Len(sres.acc) + 2)..Len(corr[x].sorted_idx) :
              Qualifies(corr[x].sorted_idx[i], sres.gcd)

C9_PeriodFromFundamental ==
    sres.ret = 265 =>
        /\ NonZero(sres.tmp)[1] = sres.gcd
        /\ sres.bin = sres.gcd
        /\ sres.period = PNum(Round2(NT, sres.gcd))

\* C9 as amended: a numeric period is NT divided by the first non-zero
\* member of the surviving set, which is the highest-ranked non-zero index
\* and the bin of the significance test; it is the fundamental when that
\* index is above 1, and 1 (period NT) when that index is 1, the fundamental
\* then being the second-ranked non-zero index
C9_PeriodFromFirstMember ==
    sres.ret = 265 =>
        \A x \in Cells :
            LET nz == NonZero(corr[x].sorted_idx)
            IN /\ NonZero(sres.tmp)[1] = nz[1]
               /\ sres.bin = nz[1]
               /\ sres.period = PNum(Round2(NT, nz[1]))
               /\ nz[1] > 1 => sres.gcd = nz[1]
               /\ nz[1] = 1 => sres.gcd = nz[2]

\* a period NT was returned for a top index 1 whose fundamental is above 1
C9_Witness ==
    /\ sres.ret = 265
    /\ sres.bin = 1 /\ sres.gcd > 1
    /\ Len(NonZero(sres.tmp)) > 1
    /\ sres.period = PNum(Rat(NT, 1))

\* C10: a sequence below the tolerance gives (1.0, corr, None) in the scalar
\* path and None in its gridded cell, whatever NT >= 4 and whatever else
\* holds of the sequence
C10_NoSignalFirst ==
    \A x \in Cells :
        (NT >= 4 /\ corr[x].belowEps) =>
            /\ sres.status # "notrun" =>
                  /\ sres.status = "ok" /\ sres.ret = 204
                  /\ sres.period = PNone /\ sres.r2 = One
                  /\ sres.fit = FitCorr
            /\ ares.status # "notrun" =>
                  ArrayDone /\ ares.cell[x].res = PNone

\* C11: a sequence whose maximum is at least EPS_CORR and whose summed
\* non-DC coefficient magnitude is below 1e-10 makes the scalar function
\* return (1.0, corr, 1) at line 207, before the fundamental is computed and
\* before any call of the significance test or the fit
C11_ConstantEarlyExit ==
    (sres.status # "notrun" /\ ~corr[1].belowEps /\ corr[1].isConst) =>
        /\ sres.status = "ok" /\ sres.ret = 207
        /\ sres.period = ConstMarker /\ sres.r2 = One /\ sres.fit = FitCorr
        /\ sres.gcd = 0 /\ sres.acc = <<>> /\ sres.tmp = <<>>
        /\ sres.calls = {}

\* the early exit was taken for a sequence with two non-zero bins outside
\* DC, on which the harmonic search would have run
C11_Witness ==
    /\ sres.ret = 207
    /\ ~corr[1].belowEps /\ corr[1].isConst
    /\ Cardinality({k \in NonDC(NT) : corr[1].mag[k] > 0}) >= 2

\* C12: a numeric period is never the constant marker: NT / f differs from 1
\* for every bin f of 1..NT // 2, rounded (scalar) or not (gridded), so the
\* period of line 265 and the value a cell gets at line 375 are not 1
C12_MarkerIsNoPeriod ==
    /\ \A f \in NonDC(NT) : Round2(NT, f) # One /\ Rat(NT, f) # One
    /\ sres.ret = 265 => sres.period # ConstMarker
    /\ ArrayDone =>
          \A x \in Cells :
              (ares.cell[x].res.kind = "num" /\ ~corr[x].isConst) =>
                  ares.cell[x].res # ConstMarker

\* the shortest period, NT / (NT // 2), came out of both paths
C12_Witness ==
    /\ sres.ret = 265 /\ sres.bin = NT \div 2
    /\ ArrayDone
    /\ \E x \in Cells :
          /\ ~corr[x].isConst
          /\ ares.cell[x].res = PNum(Rat(NT, NT \div 2))

\* C13: with NT = 1 neither path returns a result: the scalar function and
\* the gridded driver both end in an exception
C13_LengthOneIsFatal ==
    NT = 1 =>
        /\ sres.status # "notrun" => sres.status # "ok"
        /\ ares.status # "notrun" => ares.status # "ok"

\* C14: two grids that hold the same sequence in cell 1 give the same result
\* in cell 1 (and the driver raises for one only if it raises for the
\* other), whatever the other cells hold
C14_NoCrossCellLeakage ==
    (ares.status # "notrun" /\ ares2.status # "notrun") =>
        /\ ares2.status = ares.status
        /\ ares2.cell = ares.cell[1]

\* the ranking of section 4.3 step 1: every bin once, by descending
\* magnitude, bins of equal magnitude by ascending index
StatedRanking(n, mag, s) ==
    /\ Len(s) = NBins(n)
    /\ Range(s) = Bins(n)
    /\ \A i, j \in 1..Len(s) :
          i < j => \/ mag[s[i]] > mag[s[j]]
                   \/ mag[s[i]] = mag[s[j]] /\ s[i] < s[j]

\* C15: the ranking either path has worked on lists every bin exactly once
\* in order of descending |c_n|, two bins of equal magnitude in ascending
\* index order
C15_RankingTiesAscending ==
    /\ ScalarSearched =>
          StatedRanking(NT, corr[1].mag, corr[1].sorted_idx)
    /\ ArrayDone =>
          \A x \in Cells :
              StatedRanking(NT, corr[x].mag, corr[x].sorted_idx)

\* r < s on floats: false for nan, true for -inf (num < 0 over den = 0)
RatLT(r, s) ==
    \/ r.den = 0 /\ r.num < 0
    \/ r.den > 0 /\ r.num * s.den < s.num * r.den

\* C16: once the fundamental is in the surviving set and the significance
\* test has passed, the period is None exactly when the adjusted r2 is below
\* R2_THRESHOLD and numeric when it is at or above it; with a None period
\* the scalar function still returns the adjusted r2 and the Fourier fit
C16_R2Gating ==
    /\ (/\ ScalarSearched
        /\ sres.gcd \in Range(sres.tmp)
        /\ calc_chi2_significance(corr[1], NonZero(sres.tmp)[1])) =>
           /\ sres.status = "ok"
           /\ sres.period = PNone <=> RatLT(sres.r2, R2_THRESHOLD)
           /\ RatGE(sres.r2, R2_THRESHOLD) <=> sres.period.kind = "num"
           /\ sres.fit = FitFourier(sres.tmp)
           /\ sres.r2 = AdjustedR2(NT, r2_score(NT, corr[1].mag,
                                                Range(sres.tmp)),
                                   Len(sres.tmp))
    /\ ArrayDone =>
          \A x \in Cells :
              LET a == ares.cell[x]
              IN (/\ ~corr[x].belowEps /\ ~corr[x].isConst
                  /\ a.gcd \in Range(a.tmp) /\ a.significant) =>
                     /\ a.res = PNone <=> RatLT(a.r2, R2_THRESHOLD)
                     /\ RatGE(a.r2, R2_THRESHOLD) <=> a.res.kind = "num"

\* C17: a numeric period, returned by the scalar function or left in a cell
\* by the gridded driver, is NT divided by the first non-zero member of the
\* harmonic set, rounded to 2 decimals
C17_PeriodRounded ==
    /\ sres.ret = 265 =>
          sres.period = PNum(Round2(NT, NonZero(sres.tmp)[1]))
    /\ ArrayDone =>
          \A x \in Cells :
              LET a == ares.cell[x]
              IN (a.res.kind = "num" /\ ~corr[x].isConst) =>
                     a.res = PNum(Round2(NT, NonZero(a.tmp)[1]))

RECURSIVE StatedSum(_, _, _, _)
\* the sum over t < n of A[t] * B[t + k]
StatedSum(A, B, k, n) ==
    IF n = 0 THEN 0 ELSE A[n - 1] * B[n - 1 + k] + StatedSum(A, B, k, n - 1)

\* C18: the time correlation has exactly NT entries, entry k is the sum over
\* t < NT of A[t] * B[t + k] divided by NT, and the gridded engine gives
\* every cell the sequence the scalar engine gives that cell's series
C18_TimeCorrelation ==
    /\ tcorr.scalar # <<>> =>
          \A x \in Cells :
              /\ DOMAIN tcorr.scalar[x] = 0..(NT - 1)
              /\ \A k \in 0..(NT - 1) :
                    tcorr.scalar[x][k]
                        = Rat(StatedSum(CellEvent(NT, f_i, f_j, x),
                                        CellEvent1(NT, f_j, x), k, NT), NT)
    /\ (tcorr.scalar # <<>> /\ tcorr.grid # <<>>) =>
          \A x \in Cells : tcorr.grid[x] = tcorr.scalar[x]

\* both engines ran on series whose correlation is not zero at the largest
\* shift and differs from the zero-shift value
C18_Witness ==
    /\ tcorr.scalar # <<>> /\ tcorr.grid # <<>>
    /\ NT >= 2
    /\ tcorr.grid[1][NT - 1] # Zero
    /\ tcorr.grid[1][NT - 1] # tcorr.grid[1][0]

\* C19: when the first NT samples of A are all zero, or all 2 * NT samples
\* of B are, _calc_time_corr returns NT zeros, and what it returns is for
\* every input the sequence the full dot-product computation gives
C19_ShortCircuit ==
    tcorr.scalar # <<>> =>
        \A x \in Cells :
            LET A == CellEvent(NT, f_i, f_j, x)
                B == CellEvent1(NT, f_j, x)
            IN /\ (AllZero(A) \/ AllZero(B)) =>
                      tcorr.scalar[x] = ZeroCorr(NT)
               /\ tcorr.scalar[x] = FullTimeCorr(NT, A, B)

\* the short-circuit was taken on B with A not zero
C19_Witness ==
    /\ tcorr.scalar # <<>>
    /\ NT >= 2
    /\ ~AllZero(f_i) /\ AllZero(f_j)

\* the sequence is a cosine of period n / f on top of a constant: f divides
\* n and is the only bin outside DC with energy, well above both tolerances
PureCosine(n, c, f) ==
    /\ f \in NonDC(n) /\ n % f = 0
    /\ c.mag[f] > 0
    /\ \A k \in NonDC(n) \ {f} : c.mag[k] = 0
    /\ ~c.belowEps /\ ~c.isConst

\* C20: for a pure cosine of period NT / f the scalar function keeps f as
\* the first non-zero member of the harmonic set, does not return at line
\* 236, and, the significance test passed, returns the period NT / f,
\* whatever order the bins without energy have in the ranking (stated for
\* NT >= 5)
C20_PureCosineRecovered ==
    \A f \in NonDC(NT) :
        (NT >= 5 /\ sres.status # "notrun" /\ PureCosine(NT, corr[1], f)) =>
            /\ sres.status = "ok"
            /\ NonZero(sres.tmp)[1] = f
            /\ sres.ret # 236
            /\ calc_chi2_significance(corr[1], f) =>
                  sres.ret = 265 /\ sres.period = PNum(Rat(NT, f))

\* C21: when index 0 is in the prefix the scan accepts it is in the harmonic
\* set that survives the truncation for monotonicity, in the scalar path and
\* in every cell of the gridded path
C21_ZeroSurvivesTruncation ==
    /\ ScalarSearched =>
          (0 \in Range(sres.acc) => 0 \in Range(sres.tmp))
    /\ ArrayDone =>
          \A x \in Cells :
              0 \in Range(ArrScanPrefix(corr[x].sorted_idx, ares.cell[x].gcd))
                  => 0 \in Range(ares.cell[x].tmp)

C23_ArgmaxScanIsLoop ==
    (NT >= 4 /\ ares.status # "notrun") =>
        \A x \in Cells :
            LET sorted_idx == corr[x].sorted_idx
                nz == largest_nonzero_coeff_indices(sorted_idx)
                gcd == ArrFundamental(nz[1], nz[2])
            IN ArrScanPrefix(sorted_idx, gcd) = ScanPrefix(sorted_idx, gcd)

\* C24: the adjusted r2 subtracts the size of the harmonic set, index 0
\* included: len(tmp) in the scalar path, and in every cell of the gridded
\* path a count that equals the size of the cell's harmonic set, also when a
\* selected coefficient is exactly zero
C24_DegreesOfFreedom ==
    /\ sres.ret \in {265, 266} =>
          sres.r2 = AdjustedR2(NT, r2_score(NT, corr[1].mag, Range(sres.tmp)),
                               Len(sres.tmp))
    /\ ArrayDone =>
          \A x \in Cells :
              LET a == ares.cell[x]
              IN /\ a.count = Len(a.tmp)
                 /\ a.r2 = AdjustedR2(NT, r2_score(NT, corr[x].mag,
                                                   Range(a.tmp)),
                                      Len(a.tmp))

\* C25: with a negative lag-1 autocorrelation the significance decision is
\* true whatever the power and the red-noise value; otherwise it is true
\* exactly when the normalised power at the candidate bin, the first
\* non-zero member of the harmonic set, reaches the scaled red-noise value
\* there; in the scalar tester and in every cell of the gridded tester
C25_BlueNoiseRule ==
    /\ "chi2" \in sres.calls =>
          (sres.ret # 243 <=>
              (corr[1].phiNeg \/ NonZero(sres.tmp)[1] \in corr[1].sig))
    /\ ArrayDone =>
          \A x \in Cells :
              LET a == ares.cell[x]
              IN NonZero(a.tmp) # <<>> =>
                    (a.significant <=>
                        (corr[x].phiNeg \/ NonZero(a.tmp)[1] \in corr[x].sig))

\* C26: once the scalar function has reached the harmonic search, the
\* highest-ranked non-zero index is in the accepted prefix and in the set
\* the truncation leaves, so that set has a non-zero member, its first
\* non-zero member is that index, and the truncation loop has stopped
\* before the set was empty
C26_TopIndexSurvives ==
    ScalarSearched =>
        LET top == NonZero(corr[1].sorted_idx)[1]
        IN /\ top \in Range(sres.acc)
           /\ top \in Range(sres.tmp)
           /\ NonZero(sres.tmp) # <<>>
           /\ NonZero(sres.tmp)[1] = top
           /\ IsSorted(NonZero(sres.tmp))

\* the truncation removed members and kept the top index 1, ranked behind
\* index 0, the fundamental being the second-ranked index
C26_Witness ==
    /\ ScalarSearched
    /\ Len(sres.tmp) < Len(sres.acc)
    /\ sres.tmp[1] = 0 /\ sres.tmp[2] = 1
    /\ sres.gcd > 1

\* C27: the scalar function returns at line 236 (FundamentalMissing) exactly
\* when the gcd of the two highest-ranked non-zero indices is above 1 and
\* below the highest-ranked one; for every other ranking the fundamental is
\* in the surviving set
C27_MissingIffProperDivisor ==
    ScalarSearched =>
        LET nz == NonZero(corr[1].sorted_idx)
            g == GCD(nz[1], nz[2])
        IN /\ sres.ret = 236 <=> (1 < g /\ g < nz[1])
           /\ ~(1 < g /\ g < nz[1]) => sres.gcd \in Range(sres.tmp)

\* the fundamental is neither of the two top indices; the scan had accepted
\* it and the truncation removed it
C27_Witness ==
    /\ sres.ret = 236
    /\ sres.gcd \in Range(sres.acc)
    /\ sres.gcd \notin Range(sres.tmp)
    /\ sres.gcd # NonZero(corr[1].sorted_idx)[2]

\* C28: in a harmonic set that holds the fundamental, every non-zero member
\* is a multiple of the first non-zero member, and no non-zero member is
\* below it; in the scalar path and in every cell of the gridded path
C28_MultiplesOfFirst ==
    /\ (ScalarSearched /\ sres.gcd \in Range(sres.tmp)) =>
          \A m \in Range(NonZero(sres.tmp)) :
              m % NonZero(sres.tmp)[1] = 0 /\ NonZero(sres.tmp)[1] <= m
    /\ ArrayDone =>
          \A x \in Cells :
              LET a == ares.cell[x]
              IN a.gcd \in Range(a.tmp) =>
                    \A m \in Range(NonZero(a.tmp)) :
                        m % NonZero(a.tmp)[1] = 0 /\ NonZero(a.tmp)[1] <= m

\* both paths kept three harmonics of a fundamental above 1, after the
\* truncation had removed a member
C28_Witness ==
    /\ ScalarSearched /\ ArrayDone
    /\ sres.gcd \in Range(sres.tmp)
    /\ sres.gcd > 1
    /\ Len(NonZero(sres.tmp)) >= 3
    /\ Len(sres.tmp) < Len(sres.acc)
    /\ \E x \in Cells : ares.cell[x].tmp = sres.tmp

\* C29: for NT >= 5 the denominator NT - |harmonic set| - 1 of the adjusted
\* r2 is at least 1 for every harmonic set either path selects (with the
\* size of the set and with the count the gridded path subtracts), and the
\* adjusted r2 is a finite number
C29_DenominatorPositive ==
    NT >= 5 =>
        /\ sres.status # "ZeroDivisionError"
        /\ ScalarSearched =>
              NT - Len(sres.tmp) - 1 >= 1 /\ ~IsNaN(sres.r2)
        /\ ArrayDone =>
              \A x \in Cells :
                  LET a == ares.cell[x]
                  IN /\ NT - Len(a.tmp) - 1 >= 1
                     /\ NT - a.count - 1 >= 1
                     /\ ~IsNaN(a.r2)

\* the scalar fit was made with a denominator of exactly 1, the whole
\* ranking of NT = 5 accepted, and the gridded driver went through
C29_Witness ==
    /\ NT >= 5
    /\ sres.ret \in {265, 266}
    /\ NT - Len(sres.tmp) - 1 = 1
    /\ ArrayDone

\* the positions of a call in the calls main() has made
CallsOf(name, no_trend) ==
    {i \in 1..Len(mainrun.calls) : mainrun.calls[i] = <<name, no_trend>>}

\* every call of the first kind comes after a call of the second
After(first, second) == \A i \in first : \E j \in second : j < i

\* C30: main() stores a result (no_trend = X) only after it has calculated
\* it; for picontrol it calculates and stores the original pass only and
\* the detrended container stays None; for any other scenario it calculates
\* the detrended pass before the original one and has stored both when it
\* ends
C30_MainOrdering ==
    /\ \A X \in BOOLEAN : After(CallsOf("store", X), CallsOf("calculate", X))
    /\ mainrun.scenario = "picontrol" =>
          /\ CallsOf("calculate", TRUE) = {}
          /\ CallsOf("store", TRUE) = {}
          /\ mainrun.dominant_return_period_t0_no_trend = ContainerNone
          /\ mainrun.pc = "done" => CallsOf("store", FALSE) # {}
    /\ mainrun.scenario \notin {"picontrol", "none"} =>
          /\ After(CallsOf("calculate", FALSE), CallsOf("calculate", TRUE))
          /\ mainrun.pc = "done" =>
                /\ CallsOf("store", TRUE) # {}
                /\ CallsOf("store", FALSE) # {}
                /\ \A X \in BOOLEAN : Cardinality(CallsOf("calculate", X)) = 1

\* main() has ended for a scenario with both passes and several events
C30_Witness ==
    /\ mainrun.pc = "done"
    /\ mainrun.scenario = "ssp585"
    /\ mainrun.n_events >= 2
    /\ mainrun.dominant_return_period_t0.events
           = (1..mainrun.n_events) \X Range(t_0s)
    /\ mainrun.calls[Len(mainrun.calls)] = <<"store", FALSE>>

====
